---- MODULE Spec2Model ----
(***************************************************************************)
(* Deal-score engine of pechincha-standvirtual: the weights endpoint       *)
(* (src/app/api/settings/weights/route.ts) and the recompute driver with   *)
(* its segment statistics, component scores and price-drop bonus           *)
(* (src/app/api/settings/recalculate/route.ts).                            *)
(*                                                                         *)
(* Units.  Weights are written in hundredths (35 stands for 0.35), the     *)
(* decay weights of segment entries in quarters (4 stands for 1.0), the    *)
(* blended base, bonus and total as IEEE doubles, the persisted dealScore  *)
(* in tenths of a point, timestamps in ticks (TicksPerDay to the day).     *)
(***************************************************************************)
EXTENDS Integers, Sequences, FiniteSets, TLC

VARIABLES
    listings,       \* table listings: id -> row
    priceHistory,   \* table price_history: set of rows
    settings,       \* table settings: sequence of rows [key, value]
    now,            \* the wall clock, in ticks
    run,            \* the locals of the recompute handler POST
    resp,           \* the last request/response of the weights endpoint
    call,           \* a call of one of the pure functions: arguments and result
    nullsFirst,     \* whether the database orders rows without a timestamp first
    hist,           \* the outcome of the latest earlier successful recompute run
    peer,           \* the locals of a second, overlapping invocation of POST
    posts           \* the locals of the invocations of the weights POST under way

vars == <<listings, priceHistory, settings, now, run, resp, call, nullsFirst, hist, peer,
          posts>>

\* null in a text column, and null in a numeric or timestamp column
NULL == "null"
NullNumber == -2147483647

(***************************************************************************)
(* IEEE 754 binary64 on the non-negative values the weights check and the   *)
(* blend meet (all below 2048, all multiples of 2^-60).  A value v is the   *)
(* triple of limbs <<h, m, l>> with v * 2^60 = h * 2^40 + m * 2^20 + l.     *)
(***************************************************************************)
MantissaBits == 53
LimbBits == 20
Limb == 2 ^ LimbBits

\* position of the leading binary digit of x > 0
Log2(x) == CHOOSE n \in 0..30 : x \div (2 ^ n) = 1

\* propagate carries (and borrows) between the limbs
Carry(x) ==
    LET m2 == x[2] + (x[3] \div Limb)
    IN  <<x[1] + (m2 \div Limb), m2 % Limb, x[3] % Limb>>

FZero == <<0, 0, 0>>
FOne  == <<Limb, 0, 0>>

FLess(x, y) ==
    \/ x[1] < y[1]
    \/ x[1] = y[1] /\ x[2] < y[2]
    \/ x[1] = y[1] /\ x[2] = y[2] /\ x[3] < y[3]

\* round to nearest, ties to even; sticky tells of digits below 2^-60
RoundToDouble(x, sticky) ==
    IF x = FZero THEN x
    ELSE LET top == IF x[1] > 0 THEN 2 * LimbBits + Log2(x[1])
                    ELSE IF x[2] > 0 THEN LimbBits + Log2(x[2])
                    ELSE Log2(x[3])
             q   == top - (MantissaBits - 1)      \* place of the last kept digit
         IN  IF q <= 0 THEN x
             ELSE LET low    == x[3] % (2 ^ q)
                      half   == 2 ^ (q - 1)
                      odd    == (x[3] \div (2 ^ q)) % 2 = 1
                      roundUp == \/ low > half
                                 \/ low = half /\ (sticky \/ odd)
                  IN  Carry(<<x[1], x[2],
                              x[3] - low + (IF roundUp THEN 2 ^ q ELSE 0)>>)

FAdd(x, y) ==
    RoundToDouble(Carry(<<x[1] + y[1], x[2] + y[2], x[3] + y[3]>>), FALSE)

FSub(x, y) ==      \* x >= y
    RoundToDouble(Carry(<<x[1] - y[1], x[2] - y[2], x[3] - y[3]>>), FALSE)

FAbsDiff(x, y) == IF FLess(x, y) THEN FSub(y, x) ELSE FSub(x, y)

\* the double of an integer 0 <= k < 2048
FromInt(k) == <<k * Limb, 0, 0>>

\* k * x for an integer 0 <= k <= 100, rounded as the product of doubles is
FMulInt(k, x) == RoundToDouble(Carry(<<k * x[1], k * x[2], k * x[3]>>), FALSE)

\* num / den for integers 0 <= num <= den < 2048, rounded as the quotient of
\* doubles is (a quotient below 2^-8 is cut at 2^-60, less than 2^-60 low)
FDivInt(num, den) ==
    LET r1 == ((num % den) * Limb) % den
        r2 == (r1 * Limb) % den
    IN  RoundToDouble(<<(num \div den) * Limb + ((num % den) * Limb) \div den,
                        (r1 * Limb) \div den,
                        (r2 * Limb) \div den>>,
                      (r2 * Limb) % den # 0)

\* Math.min(x, y)
FMin(x, y) == IF FLess(y, x) THEN y ELSE x

\* Math.round(x): the nearest integer, a half going up
MathRound(x) == (x[1] \div Limb) + (IF x[1] % Limb >= Limb \div 2 THEN 1 ELSE 0)

\* the double nearest to the decimal k/100 (0 <= k), as JSON.parse yields it
ParseHundredths(k) ==
    LET h  == (k * Limb) \div 100
        r1 == (k * Limb) % 100
        m  == (r1 * Limb) \div 100
        r2 == (r1 * Limb) % 100
        l  == (r2 * Limb) \div 100
        r3 == (r2 * Limb) % 100
    IN  RoundToDouble(<<h, m, l>>, r3 # 0)

(***************************************************************************)
(* The weights endpoint: src/app/api/settings/weights/route.ts             *)
(***************************************************************************)
WeightFields == {"priceVsSegment", "priceEvaluation", "mileageQuality", "pricePerKm"}

DEFAULT_WEIGHTS ==
    [priceVsSegment |-> 35, priceEvaluation |-> 25,
     mileageQuality |-> 25, pricePerKm |-> 15]

WEIGHTS_KEY == "algorithm_weights"

\* a null in the value column, and an absent weights object in a response
NullValue == [null |-> TRUE]

\* z.number().min(0).max(1) on each of the four fields
WeightsSchema(w) == \A f \in WeightFields : w[f] >= 0 /\ w[f] <= 100

\* total = a + b + c + d, left to right, in doubles
WeightsTotal(w) ==
    FAdd(FAdd(FAdd(ParseHundredths(w.priceVsSegment),
                   ParseHundredths(w.priceEvaluation)),
              ParseHundredths(w.mileageQuality)),
         ParseHundredths(w.pricePerKm))

\* variant: the total is not checked
TotalOffByMoreThanTolerance_Never(w) == FALSE

\* Math.abs(total - 1) > 0.01
TotalOffByMoreThanTolerance(w) ==
    FLess(ParseHundredths(1), FAbsDiff(WeightsTotal(w), FOne))

\* select().from(settings).where(eq(settings.key, key)).limit(1)
SelectSetting(table, key) ==
    LET rows == SelectSeq(table, LAMBDA r : r.key = key)
    IN  IF Len(rows) > 0 THEN <<rows[1]>> ELSE <<>>

\* variant: a reader always gets the defaults
StoredWeights_AlwaysDefault(table) == DEFAULT_WEIGHTS

\* the weights a reader of the settings table gets (GET and loadWeights).
\* The stored value is JSON.stringify(weights); JSON.parse of it gives the
\* same four doubles back, so the value is kept as the weights record.
StoredWeights(table) ==
    LET result == SelectSetting(table, WEIGHTS_KEY)
    IN  IF Len(result) > 0 /\ result[1].value # NullValue
        THEN result[1].value
        ELSE DEFAULT_WEIGHTS

\* update(settings).set({value}).where(eq(settings.key, key))
UpdateSetting(table, key, v) ==
    [n \in 1..Len(table) |->
        IF table[n].key = key THEN [table[n] EXCEPT !.value = v] ELSE table[n]]

\* insert(settings).values({key, value})
InsertSetting(table, key, v) == Append(table, [key |-> key, value |-> v])

NoResponse ==
    [op |-> "none", req |-> NullValue, status |-> 0, weights |-> NullValue, logged |-> FALSE]

\* GET: the stored weights or the defaults; a failed read is logged by the
\* catch, which answers with the defaults
GetWeights(dbOk) ==
    /\ resp' = [op |-> "GET", req |-> NullValue, status |-> 200,
                weights |-> IF dbOk THEN StoredWeights(settings)
                            ELSE DEFAULT_WEIGHTS,
                logged |-> ~dbOk]
    /\ UNCHANGED <<listings, priceHistory, settings, now, run, call, nullsFirst, hist, peer, posts>>

\* the response of POST to the request w
PostResponse(w, status, logged) ==
    [op |-> "POST", req |-> w, status |-> status,
     weights |-> IF status = 200 THEN w ELSE NullValue, logged |-> logged]

\* POST {weights: w}: schema, tolerance, then update-or-insert.  A schema
\* violation and a failed statement both throw into the handler's catch (500).
PostWeights(w, dbOk) ==
    /\ IF ~WeightsSchema(w)
       THEN /\ resp' = PostResponse(w, 500, TRUE)
            /\ UNCHANGED settings
       ELSE IF TotalOffByMoreThanTolerance(w)
       THEN /\ resp' = PostResponse(w, 400, FALSE)
            /\ UNCHANGED settings
       ELSE IF ~dbOk
       THEN /\ resp' = PostResponse(w, 500, TRUE)
            /\ UNCHANGED settings
       ELSE /\ settings' =
                 IF Len(SelectSetting(settings, WEIGHTS_KEY)) > 0
                 THEN UpdateSetting(settings, WEIGHTS_KEY, w)
                 ELSE InsertSetting(settings, WEIGHTS_KEY, w)
            /\ resp' = PostResponse(w, 200, FALSE)
    /\ UNCHANGED <<listings, priceHistory, now, run, call, nullsFirst, hist, peer, posts>>

\* The same handler for invocations that overlap: each runs up to its
\* select, and later does its update or insert with what the select returned.
NumClients == 2
Clients == 1..NumClients

IdlePost == [pc |-> "idle", weights |-> NullValue, existing |-> <<>>, status |-> 0]
NoPosts == [c \in Clients |-> IdlePost]

\* key: text('key').notNull().unique(): whether an insert of key is refused
KeyTaken(table, key) == \E n \in 1..Len(table) : table[n].key = key

\* POST up to the await of the select: parse, tolerance, select; a client
\* sends its next request when it has the response to the last
PostSelect(c, w) ==
    /\ posts[c].pc \in {"idle", "done"}
    /\ posts' = [posts EXCEPT ![c] =
                    IF ~WeightsSchema(w)
                    THEN [IdlePost EXCEPT !.pc = "done", !.weights = w, !.status = 500]
                    ELSE IF TotalOffByMoreThanTolerance(w)
                    THEN [IdlePost EXCEPT !.pc = "done", !.weights = w, !.status = 400]
                    ELSE [pc |-> "selected", weights |-> w,
                          existing |-> SelectSetting(settings, WEIGHTS_KEY),
                          status |-> 0]]
    /\ UNCHANGED <<listings, priceHistory, settings, now, run, resp, call, nullsFirst,
                   hist, peer>>

\* the rest of POST: update when the select found a row, insert otherwise; an
\* insert of a key that is in the table is refused and lands in the catch
PostWrite(c) ==
    /\ posts[c].pc = "selected"
    /\ IF Len(posts[c].existing) > 0
       THEN /\ settings' = UpdateSetting(settings, WEIGHTS_KEY, posts[c].weights)
            /\ posts' = [posts EXCEPT ![c].pc = "done", ![c].status = 200]
       ELSE IF KeyTaken(settings, WEIGHTS_KEY)
       THEN /\ UNCHANGED settings
            /\ posts' = [posts EXCEPT ![c].pc = "done", ![c].status = 500]
       ELSE /\ settings' = InsertSetting(settings, WEIGHTS_KEY, posts[c].weights)
            /\ posts' = [posts EXCEPT ![c].pc = "done", ![c].status = 200]
    /\ UNCHANGED <<listings, priceHistory, now, run, resp, call, nullsFirst, hist, peer>>

(***************************************************************************)
(* Segment statistics: src/app/api/settings/recalculate/route.ts           *)
(***************************************************************************)
TicksPerDay == 2

MAX_HISTORY_DAYS == 90

\* TIME_DECAY_WEIGHTS, in quarters
TIME_DECAY_WEIGHTS == [days_0_30 |-> 4, days_30_60 |-> 3, days_60_90 |-> 2]

\* Math.floor((t - since) / (1000*60*60*24))
DaysSince(since, t) == (t - since) \div TicksPerDay

\* new Date().getFullYear(): tick 0 is the first instant of 2024, and a
\* year has 365 days
CurrentYear(t) == 2024 + (t \div (365 * TicksPerDay))

getTimeDecayWeight(lastSeenAt, t) ==
    IF lastSeenAt = NullNumber THEN 0
    ELSE LET daysDiff == DaysSince(lastSeenAt, t)
         IN  IF daysDiff < 0 THEN 4
             ELSE IF daysDiff <= 30 THEN TIME_DECAY_WEIGHTS.days_0_30
             ELSE IF daysDiff <= 60 THEN TIME_DECAY_WEIGHTS.days_30_60
             ELSE IF daysDiff <= 90 THEN TIME_DECAY_WEIGHTS.days_60_90
             ELSE 0

\* [...segmentPrices].sort((a, b) => a.price - b.price): a stable sort; an
\* entry goes after the cheaper entries and the equally priced ones before it
SortByPrice(seq) ==
    LET n == Len(seq)
        place == <<>> \o [i \in 1..n |->
                    Cardinality({j \in 1..n :
                                    \/ seq[j].price < seq[i].price
                                    \/ seq[j].price = seq[i].price /\ j <= i})]
    IN  <<>> \o [k \in 1..n |-> seq[CHOOSE i \in 1..n : place[i] = k]]

\* the loop over sorted from lo to hi: totalWeight and belowWeight, both in
\* eighths (an entry of weight w quarters adds 2w, or w when its price is
\* equal); the sums are exact in doubles, so they are taken by halves
RECURSIVE SumRange(_, _, _, _)
SumRange(sorted, price, lo, hi) ==
    IF lo > hi THEN [totalWeight |-> 0, belowWeight |-> 0]
    ELSE IF lo = hi
    THEN LET item == sorted[lo]
         IN  [totalWeight |-> 2 * item.weight,
              belowWeight |-> IF item.price < price THEN 2 * item.weight
                              ELSE IF item.price = price THEN item.weight
                              ELSE 0]
    ELSE LET mid   == (lo + hi) \div 2
             left  == SumRange(sorted, price, lo, mid)
             right == SumRange(sorted, price, mid + 1, hi)
         IN  [totalWeight |-> left.totalWeight + right.totalWeight,
              belowWeight |-> left.belowWeight + right.belowWeight]

SumWeights(sorted, price, n) == SumRange(sorted, price, 1, n)

\* Math.round(x) for x = num / den >= 0, den > 0: floor(x + 1/2)
RoundRatio(num, den) == (2 * num + den) \div (2 * den)

\* Math.round(100 - belowWeight / totalWeight * 100), the weights in eighths
PercentileScore(belowWeight, totalWeight) ==
    MathRound(FSub(FromInt(100), FMulInt(100, FDivInt(belowWeight, totalWeight))))

\* variant: the percentile itself is returned, not 100 minus it
calculateWeightedPercentile_NotInverted(price, segmentPrices) ==
    IF Len(segmentPrices) = 0 THEN 50
    ELSE LET sorted == SortByPrice(segmentPrices)
             sums   == SumWeights(sorted, price, Len(sorted))
         IN  IF sums.totalWeight = 0 THEN 50
             ELSE MathRound(FMulInt(100, FDivInt(sums.belowWeight,
                                                 sums.totalWeight)))

\* variant: a segment without weight scores 0
calculateWeightedPercentile_ZeroForNoWeight(price, segmentPrices) ==
    IF Len(segmentPrices) = 0 THEN 50
    ELSE LET sorted == SortByPrice(segmentPrices)
             sums   == SumWeights(sorted, price, Len(sorted))
         IN  IF sums.totalWeight = 0 THEN 0
             ELSE PercentileScore(sums.belowWeight, sums.totalWeight)

calculateWeightedPercentile(price, segmentPrices) ==
    IF Len(segmentPrices) = 0 THEN 50
    ELSE LET sorted == SortByPrice(segmentPrices)
             sums   == SumWeights(sorted, price, Len(sorted))
         IN  IF sums.totalWeight = 0 THEN 50
             ELSE PercentileScore(sums.belowWeight, sums.totalWeight)

\* Math.floor(listing.year / 3) * 3; a null year counts as 0 in the division
YearGroup(year) == ((IF year = NullNumber THEN 0 ELSE year) \div 3) * 3

\* `${make}|${model}|${fuelType}|${yearGroup}`; a null prints as "null"
SegmentKey(l) ==
    l.make \o "|" \o l.model \o "|" \o l.fuelType \o "|" \o ToString(YearGroup(l.year))

\* ids in ascending order, as a sequence
IdSeq(S) ==
    LET place == [x \in S |-> Cardinality({y \in S : y <= x})] @@ <<>>
    IN  <<>> \o [k \in 1..Cardinality(S) |-> CHOOSE x \in S : place[x] = k]

\* where(or(eq(isActive, true), gte(lastSeenAt, cutoffDate))); t is the now
\* of calculatePriceVsSegmentScores, read before the query
HistoricalListings(table, t) ==
    LET cutoffDate == t - MAX_HISTORY_DAYS * TicksPerDay
    IN  IdSeq({id \in DOMAIN table :
                  \/ table[id].isActive
                  \/ table[id].lastSeenAt # NullNumber /\ table[id].lastSeenAt >= cutoffDate})

\* variant: the weight of an active listing decays with its age too
SegmentData_DecayForAll(table, cutoffNow, t) ==
    LET historical == HistoricalListings(table, cutoffNow)
        weightOf(id) == getTimeDecayWeight(table[id].lastSeenAt, t)
        kept == SelectSeq(historical, LAMBDA id : weightOf(id) # 0)
        keys == {SegmentKey(table[kept[n]]) : n \in 1..Len(kept)}
    IN  [key \in keys |->
            LET members == SelectSeq(kept, LAMBDA id : SegmentKey(table[id]) = key)
            IN  [n \in 1..Len(members) |->
                    [price |-> table[members[n]].price,
                     weight |-> weightOf(members[n]),
                     id |-> members[n],
                     isActive |-> table[members[n]].isActive]]]

\* segmentData: key -> entries, those of weight 0 skipped; cutoffNow is the
\* now of the cutoff, t the clock getTimeDecayWeight reads after the query
SegmentData(table, cutoffNow, t) ==
    LET historical == HistoricalListings(table, cutoffNow)
        weightOf(id) == IF table[id].isActive THEN 4
                        ELSE getTimeDecayWeight(table[id].lastSeenAt, t)
        kept == SelectSeq(historical, LAMBDA id : weightOf(id) # 0)
        keys == {SegmentKey(table[kept[n]]) : n \in 1..Len(kept)}
    IN  [key \in keys |->
            LET members == SelectSeq(kept, LAMBDA id : SegmentKey(table[id]) = key)
            IN  [n \in 1..Len(members) |->
                    [price |-> table[members[n]].price,
                     weight |-> weightOf(members[n]),
                     id |-> members[n],
                     isActive |-> table[members[n]].isActive]]]

\* scores: id -> price-vs-segment score, for the active listings read
calculatePriceVsSegmentScores(table, cutoffNow, t) ==
    LET segmentData == SegmentData(table, cutoffNow, t)
        historical  == HistoricalListings(table, cutoffNow)
        scored == {id \in DOMAIN table :
                     /\ \E n \in 1..Len(historical) : historical[n] = id
                     /\ table[id].isActive}
    IN  [id \in scored |->
            LET key == SegmentKey(table[id])
                segmentPrices == IF key \in DOMAIN segmentData
                                 THEN segmentData[key] ELSE <<>>
            IN  calculateWeightedPercentile(table[id].price, segmentPrices)]

(***************************************************************************)
(* Price-drop bonus score                                                  *)
(***************************************************************************)
\* orderBy(desc(recordedAt)): is a before b?  Where rows without a
\* timestamp go depends on the database (first in PostgreSQL, last in SQLite).
NewerThan(a, b, first) ==
    IF a.recordedAt = NullNumber THEN first /\ b.recordedAt # NullNumber
    ELSE IF b.recordedAt = NullNumber THEN ~first
    ELSE a.recordedAt > b.recordedAt

RECURSIVE OrderByRecordedAtDesc(_, _)
OrderByRecordedAtDesc(rows, first) ==
    IF rows = {} THEN <<>>
    ELSE LET head == CHOOSE r \in rows :
                         \A q \in rows \ {r} : ~NewerThan(q, r, first)
         IN  <<head>> \o OrderByRecordedAtDesc(rows \ {head}, first)

\* pricesByListing.get(listingId): the rows of one listing, newest first
PricesOfListing(history, listingId, first) ==
    OrderByRecordedAtDesc({r \in history : r.listingId = listingId}, first)

\* variant: the drop thresholds are strict (> 20, > 10, > 5)
PriceDropScore_StrictThresholds(prices, t) ==
    LET currentPrice  == prices[1].price
        previousPrice == prices[2].price
    IN  IF previousPrice = 0 THEN 0
        ELSE IF currentPrice - previousPrice >= 0 THEN 0
        ELSE LET drop == previousPrice - currentPrice
                 recordedAt == prices[1].recordedAt
                 daysSinceChange == IF recordedAt # NullNumber
                                    THEN DaysSince(recordedAt, t) ELSE 30
             IN  IF 100 * drop > 20 * previousPrice /\ daysSinceChange <= 7 THEN 100
                 ELSE IF 100 * drop > 10 * previousPrice /\ daysSinceChange <= 14 THEN 80
                 ELSE IF 100 * drop > 5 * previousPrice /\ daysSinceChange <= 30 THEN 60
                 ELSE IF drop > 0 /\ daysSinceChange <= 30 THEN 40
                 ELSE 0

\* the score of one listing from its rows (at least two), newest first
PriceDropScore(prices, t) ==
    LET currentPrice  == prices[1].price
        previousPrice == prices[2].price
    IN  \* priceChange = (current - previous) / previous * 100 is Infinity or
        \* NaN for previous = 0, and either way the score stays 0
        IF previousPrice = 0 THEN 0
        ELSE IF currentPrice - previousPrice >= 0 THEN 0
        ELSE LET drop == previousPrice - currentPrice     \* dropPercent = drop / previous * 100
                 recordedAt == prices[1].recordedAt
                 daysSinceChange == IF recordedAt # NullNumber
                                    THEN DaysSince(recordedAt, t) ELSE 30
             IN  IF 100 * drop >= 20 * previousPrice /\ daysSinceChange <= 7 THEN 100
                 ELSE IF 100 * drop >= 10 * previousPrice /\ daysSinceChange <= 14 THEN 80
                 ELSE IF 100 * drop >= 5 * previousPrice /\ daysSinceChange <= 30 THEN 60
                 ELSE IF drop > 0 /\ daysSinceChange <= 30 THEN 40
                 ELSE 0

\* scores: id -> price-drop score, for the active ids read by the first query
calculatePriceDropScores(activeIds, history, t, first) ==
    [id \in activeIds |->
        LET prices == PricesOfListing(history, id, first)
        IN  IF Len(prices) < 2 THEN 0 ELSE PriceDropScore(prices, t)]

(***************************************************************************)
(* Component scores and blend                                              *)
(***************************************************************************)
EXPECTED_MILEAGE_PER_YEAR ==
    [diesel |-> 20000, gasoline |-> 12000, electric |-> 15000,
     hybrid |-> 15000, lpg |-> 18000] @@ ("plug-in-hybrid" :> 15000)

\* String.prototype.toUpperCase / toLowerCase on the strings of the model
ToUpperCase(str) ==
    CASE str = "below" -> "BELOW"
      [] str = "in"    -> "IN"
      [] str = "above" -> "ABOVE"
      [] str = "Below" -> "BELOW"
      [] str = "Above" -> "ABOVE"
      [] str = "fair"  -> "FAIR"
      [] OTHER         -> str

ToLowerCase(str) ==
    CASE str = "Diesel"   -> "diesel"
      [] str = "DIESEL"   -> "diesel"
      [] str = "Gasoline" -> "gasoline"
      [] str = "LPG"      -> "lpg"
      [] OTHER            -> str

\* truthiness of a nullable number
Truthy(n) == n # NullNumber /\ n # 0

\* calculatePriceEvaluationScore of lib/utils/dealScore.ts: a switch on the
\* value as it is
calculatePriceEvaluationScore(priceEvaluation) ==
    CASE priceEvaluation = "BELOW" -> 100
      [] priceEvaluation = "IN"    -> 50
      [] priceEvaluation = "ABOVE" -> 0
      [] OTHER                     -> 50

PriceEvaluationScore(priceEvaluation) ==
    LET priceEval == ToUpperCase(IF priceEvaluation = NULL THEN "" ELSE priceEvaluation)
    IN  IF priceEval = "BELOW" THEN 100
        ELSE IF priceEval = "IN" THEN 50
        ELSE IF priceEval = "ABOVE" THEN 10
        ELSE 50

\* the score of mileageRatio = m / expectedMileage, compared with 0.4, 0.6, ...
MileageRatioScore(m, expectedMileage) ==
    IF 10 * m <= 4 * expectedMileage THEN 100
    ELSE IF 10 * m <= 6 * expectedMileage THEN 90
    ELSE IF 10 * m <= 8 * expectedMileage THEN 80
    ELSE IF 10 * m <= 10 * expectedMileage THEN 70
    ELSE IF 10 * m <= 12 * expectedMileage THEN 55
    ELSE IF 10 * m <= 14 * expectedMileage THEN 40
    ELSE IF 10 * m <= 16 * expectedMileage THEN 25
    ELSE 10

\* the keys a plain object inherits from Object.prototype that a lower-case
\* string can name; the value found under them is an object, not a number
InheritedKeys == {"constructor", "__proto__"}

\* what a product with a non-number is
NaN == -2147483646

\* expectedPerYear of a fuel type:
\* EXPECTED_MILEAGE_PER_YEAR[fuelType] || EXPECTED_MILEAGE_PER_YEAR["gasoline"]
ExpectedPerYear(fuel) ==
    LET fuelType == ToLowerCase(IF fuel = NULL \/ fuel = "" THEN "gasoline" ELSE fuel)
    IN  IF fuelType \in DOMAIN EXPECTED_MILEAGE_PER_YEAR
        THEN EXPECTED_MILEAGE_PER_YEAR[fuelType]
        ELSE IF fuelType \in InheritedKeys THEN NaN
        ELSE EXPECTED_MILEAGE_PER_YEAR["gasoline"]

\* variant: the year is not tested, a car without one counts as one year old
MileageQualityScore_YearUntested(listing, currentYear) ==
    IF Truthy(listing.mileage)
    THEN LET diff   == IF listing.year = NullNumber THEN 0 ELSE currentYear - listing.year
             carAge == IF diff > 1 THEN diff ELSE 1
         IN  MileageRatioScore(listing.mileage, carAge * ExpectedPerYear(listing.fuelType))
    ELSE 50

MileageQualityScore(listing, currentYear) ==
    IF Truthy(listing.year) /\ Truthy(listing.mileage)
    THEN LET diff   == currentYear - listing.year
             carAge == IF diff > 1 THEN diff ELSE 1        \* Math.max(1, diff)
             expectedPerYear == ExpectedPerYear(listing.fuelType)
             expectedMileage == IF expectedPerYear = NaN THEN NaN
                                ELSE carAge * expectedPerYear
         IN  IF expectedMileage # NaN /\ expectedMileage > 0
             THEN MileageRatioScore(listing.mileage, expectedMileage)
             ELSE 70                                       \* mileageRatio = 1
    ELSE 50

\* variant: the thresholds are exclusive
PricePerKmScore_ExclusiveThresholds(listing) ==
    IF Truthy(listing.mileage) /\ listing.mileage > 0
    THEN LET p == listing.price
             m == listing.mileage
         IN  IF 100 * p < 5 * m THEN 100
             ELSE IF 100 * p < 8 * m THEN 90
             ELSE IF 100 * p < 12 * m THEN 75
             ELSE IF 100 * p < 18 * m THEN 60
             ELSE IF 100 * p < 25 * m THEN 45
             ELSE IF 100 * p < 35 * m THEN 30
             ELSE 15
    ELSE 50

PricePerKmScore(listing) ==
    IF Truthy(listing.mileage) /\ listing.mileage > 0
    THEN LET p == listing.price
             m == listing.mileage
         IN  \* pricePerKm = p / m, compared with 0.05, 0.08, ...
             IF 100 * p <= 5 * m THEN 100
             ELSE IF 100 * p <= 8 * m THEN 90
             ELSE IF 100 * p <= 12 * m THEN 75
             ELSE IF 100 * p <= 18 * m THEN 60
             ELSE IF 100 * p <= 25 * m THEN 45
             ELSE IF 100 * p <= 35 * m THEN 30
             ELSE 15
    ELSE 50

calculateComponentScores(listing, currentYear) ==
    [priceEvaluation |-> PriceEvaluationScore(listing.priceEvaluation),
     mileageQuality  |-> MileageQualityScore(listing, currentYear),
     pricePerKm      |-> PricePerKmScore(listing)]

\* map.get(id) || fallback
GetOr(map, id, fallback) ==
    IF id \in DOMAIN map /\ map[id] # 0 THEN map[id] ELSE fallback

\* baseScore: the four products summed left to right, in doubles; a weight
\* of k hundredths is the double that JSON.parse gives for k/100
BaseScore(priceVsSegmentScore, components, weights) ==
    FAdd(FAdd(FAdd(FMulInt(priceVsSegmentScore, ParseHundredths(weights.priceVsSegment)),
                   FMulInt(components.priceEvaluation,
                           ParseHundredths(weights.priceEvaluation))),
              FMulInt(components.mileageQuality, ParseHundredths(weights.mileageQuality))),
         FMulInt(components.pricePerKm, ParseHundredths(weights.pricePerKm)))

\* variant: the raw 0-100 score is added instead of a tenth of it
PriceDropBonus_RawScore(priceDropScore) == FromInt(priceDropScore)

\* priceDropBonus = (priceDropScore / 100) * 10, a double
PriceDropBonus(priceDropScore) == FMulInt(10, ParseHundredths(priceDropScore))

\* variant: the Math.min(100, ...) is missing
TotalScore_Unclamped(baseScore, priceDropBonus) == FAdd(baseScore, priceDropBonus)

\* totalScore = Math.min(100, baseScore + priceDropBonus), a double
TotalScore(baseScore, priceDropBonus) ==
    FMin(FromInt(100), FAdd(baseScore, priceDropBonus))

\* variant: the total is rounded to a whole number of points
RoundToTenth_Whole(totalScore) == 10 * MathRound(totalScore)

\* Math.round(totalScore * 10) / 10, as the number n of tenths: the division
\* gives the double nearest to n/10
RoundToTenth(totalScore) == MathRound(FMulInt(10, totalScore))

(***************************************************************************)
(* The recompute driver: POST of recalculate/route.ts.  Each action is the *)
(* part of the handler between two awaits.                                 *)
(***************************************************************************)
batchSize == 1000

NoWeights ==
    [priceVsSegment |-> 0, priceEvaluation |-> 0, mileageQuality |-> 0, pricePerKm |-> 0]

NoBreakdown == [none |-> TRUE]

NoRunResponse ==
    [status |-> 0, success |-> FALSE, updatedCount |-> NullNumber, weights |-> NoWeights]

\* the locals of an invocation: historicalListings is what the query of
\* calculatePriceVsSegmentScores returned, segNow and dropNow are the now of
\* calculatePriceVsSegmentScores and of calculatePriceDropScores, log is what
\* console.error has printed, error the await that rejected
IdleRun ==
    [pc |-> "idle", weights |-> NoWeights, allListings |-> <<>>,
     segNow |-> NullNumber, dropNow |-> NullNumber,
     historicalListings |-> <<>>,
     priceVsSegmentScores |-> <<>>, activeIds |-> {}, priceDropScores |-> <<>>,
     i |-> 0, k |-> 0, updatedCount |-> 0, error |-> "", log |-> <<>>,
     response |-> NoRunResponse]

\* variant: only the listings without a score yet are enumerated
ActiveListings_OnlyUnscored(table) ==
    LET ids == IdSeq({id \in DOMAIN table :
                        table[id].isActive /\ table[id].dealScore = NullNumber})
    IN  [n \in 1..Len(ids) |->
            [id |-> ids[n],
             priceEvaluation |-> table[ids[n]].priceEvaluation,
             year |-> table[ids[n]].year,
             mileage |-> table[ids[n]].mileage,
             price |-> table[ids[n]].price,
             make |-> table[ids[n]].make,
             model |-> table[ids[n]].model,
             fuelType |-> table[ids[n]].fuelType]]

\* select({id, priceEvaluation, year, mileage, price, make, model, fuelType})
\*   .from(listings).where(eq(listings.isActive, true))
ActiveListings(table) ==
    LET ids == IdSeq({id \in DOMAIN table : table[id].isActive})
    IN  [n \in 1..Len(ids) |->
            [id |-> ids[n],
             priceEvaluation |-> table[ids[n]].priceEvaluation,
             year |-> table[ids[n]].year,
             mileage |-> table[ids[n]].mileage,
             price |-> table[ids[n]].price,
             make |-> table[ids[n]].make,
             model |-> table[ids[n]].model,
             fuelType |-> table[ids[n]].fuelType]]

\* select({id}).from(listings).where(eq(listings.isActive, true))
ActiveIds(table) == {id \in DOMAIN table : table[id].isActive}

\* the breakdown object of one listing
Breakdown(listing, priceVsSegmentScore, components, priceDropScore, weights) ==
    [priceVsSegment |-> [score |-> priceVsSegmentScore, weight |-> weights.priceVsSegment],
     priceEvaluation |-> [score |-> components.priceEvaluation,
                          weight |-> weights.priceEvaluation,
                          value |-> IF listing.priceEvaluation = NULL \/ listing.priceEvaluation = ""
                                    THEN "UNKNOWN" ELSE listing.priceEvaluation],
     mileageQuality |-> [score |-> components.mileageQuality,
                         weight |-> weights.mileageQuality,
                         value |-> listing.mileage,
                         fuelType |-> listing.fuelType],
     pricePerKm |-> [score |-> components.pricePerKm,
                     weight |-> weights.pricePerKm,
                     \* Math.round(price / mileage * 100) / 100, in hundredths
                     value |-> IF Truthy(listing.mileage) /\ listing.mileage > 0
                               THEN RoundRatio(100 * listing.price, listing.mileage)
                               ELSE NullNumber],
     priceDropBonus |-> [score |-> priceDropScore,
                         bonus |-> PriceDropBonus(priceDropScore)]]

\* variant: the weights are read from the settings table for every listing
ScoredListing_ReloadsWeights(listing, r, t) ==
    LET components == calculateComponentScores(listing, CurrentYear(t))
        priceVsSegmentScore == GetOr(r.priceVsSegmentScores, listing.id, 50)
        priceDropScore == GetOr(r.priceDropScores, listing.id, 0)
        baseScore == BaseScore(priceVsSegmentScore, components, StoredWeights(settings))
        priceDropBonus == PriceDropBonus(priceDropScore)
        totalScore == TotalScore(baseScore, priceDropBonus)
    IN  [dealScore |-> RoundToTenth(totalScore),
         scoreBreakdown |-> Breakdown(listing, priceVsSegmentScore, components,
                                      priceDropScore, StoredWeights(settings))]

\* what one pass of the loop body computes for a listing of allListings
ScoredListing(listing, r, t) ==
    LET components == calculateComponentScores(listing, CurrentYear(t))
        priceVsSegmentScore == GetOr(r.priceVsSegmentScores, listing.id, 50)
        priceDropScore == GetOr(r.priceDropScores, listing.id, 0)
        baseScore == BaseScore(priceVsSegmentScore, components, r.weights)
        priceDropBonus == PriceDropBonus(priceDropScore)
        totalScore == TotalScore(baseScore, priceDropBonus)
    IN  [dealScore |-> RoundToTenth(totalScore),
         scoreBreakdown |-> Breakdown(listing, priceVsSegmentScore, components,
                                      priceDropScore, r.weights)]

\* the handler returns the success response
Respond(r) ==
    [r EXCEPT !.pc = "done",
              !.response = [status |-> 200, success |-> TRUE,
                            updatedCount |-> r.updatedCount, weights |-> r.weights]]

\* the handler's catch: console.error and the 500 response
Fail(r, error) ==
    [r EXCEPT !.pc = "done", !.error = error,
              !.log = Append(r.log, "Error recalculating scores:"),
              !.response = [status |-> 500, success |-> FALSE,
                            updatedCount |-> NullNumber, weights |-> NoWeights]]

\* variant: the next batch starts one listing too far
Advance_SkipsAtBoundary(r) ==
    LET len      == Len(r.allListings)
        batchLen == IF r.i + batchSize < len THEN batchSize ELSE len - r.i
    IN  IF r.i >= len THEN Respond(r)
        ELSE IF r.k < batchLen THEN r
        ELSE IF r.i + batchSize + 1 < len
        THEN [r EXCEPT !.i = r.i + batchSize + 1, !.k = 0]
        ELSE Respond([r EXCEPT !.i = r.i + batchSize + 1, !.k = 0])

\* the loop conditions after position (i, k): next listing, next batch or return
Advance(r) ==
    LET len      == Len(r.allListings)
        batchLen == IF r.i + batchSize < len THEN batchSize ELSE len - r.i
    IN  IF r.i >= len THEN Respond(r)
        ELSE IF r.k < batchLen THEN r
        ELSE IF r.i + batchSize < len THEN [r EXCEPT !.i = r.i + batchSize, !.k = 0]
        ELSE Respond([r EXCEPT !.i = r.i + batchSize, !.k = 0])

\* an outcome of a successful run, kept to compare the next run with
Outcome(r, table) ==
    [updatedCount |-> r.response.updatedCount,
     scores |-> [id \in DOMAIN table |->
                    [dealScore |-> table[id].dealScore,
                     scoreBreakdown |-> table[id].scoreBreakdown]]]

NoOutcome == [updatedCount |-> NullNumber, scores |-> <<>>]

\* const weights = await loadWeights(): a failed read is caught and logged
\* inside loadWeights, which then returns the defaults
StartedRun(dbOk) ==
    [IdleRun EXCEPT !.pc = "listings",
                    !.weights = IF dbOk THEN StoredWeights(settings) ELSE DEFAULT_WEIGHTS,
                    !.log = IF dbOk THEN <<>> ELSE <<"Error loading weights:">>]

\* variant: the enumeration is not restricted to the active listings
WithListings_AllRows(r, dbOk) ==
    IF dbOk
    THEN [r EXCEPT !.pc = "segments",
                   !.allListings =
                       LET ids == IdSeq(DOMAIN listings)
                       IN  [n \in 1..Len(ids) |->
                               [id |-> ids[n],
                                priceEvaluation |-> listings[ids[n]].priceEvaluation,
                                year |-> listings[ids[n]].year,
                                mileage |-> listings[ids[n]].mileage,
                                price |-> listings[ids[n]].price,
                                make |-> listings[ids[n]].make,
                                model |-> listings[ids[n]].model,
                                fuelType |-> listings[ids[n]].fuelType]],
                   !.segNow = now]
    ELSE Fail(r, "listings")

\* const allListings = await db.select(...), then the call of
\* calculatePriceVsSegmentScores up to its query
WithListings(r, dbOk) ==
    IF dbOk
    THEN [r EXCEPT !.pc = "segments", !.allListings = ActiveListings(listings),
                   !.segNow = now]
    ELSE Fail(r, "listings")

\* variant: the handler goes on without the segment scores
WithPriceVsSegmentScores_Unbuilt(r, dbOk) ==
    IF dbOk THEN [r EXCEPT !.pc = "activeIds", !.dropNow = now]
    ELSE Fail(r, "segments")

\* the rest of calculatePriceVsSegmentScores, then the call of
\* calculatePriceDropScores up to its first query
WithPriceVsSegmentScores(r, dbOk) ==
    IF dbOk
    THEN [r EXCEPT !.pc = "activeIds",
                   !.historicalListings =
                       LET ids == HistoricalListings(listings, r.segNow)
                       IN  [n \in 1..Len(ids) |->
                               [id |-> ids[n], price |-> listings[ids[n]].price,
                                isActive |-> listings[ids[n]].isActive]],
                   !.priceVsSegmentScores =
                       calculatePriceVsSegmentScores(listings, r.segNow, now),
                   !.dropNow = now]
    ELSE Fail(r, "segments")

\* calculatePriceDropScores after its first query; no active id: return at
\* once, into the loop
WithActiveIds(r, dbOk) ==
    IF ~dbOk THEN Fail(r, "activeIds")
    ELSE IF ActiveIds(listings) = {}
    THEN Advance([r EXCEPT !.pc = "score", !.activeIds = {}, !.priceDropScores = <<>>])
    ELSE [r EXCEPT !.pc = "priceDrop", !.activeIds = ActiveIds(listings)]

\* calculatePriceDropScores after its second query, and the loop's entry
WithPriceDropScores(r, dbOk) ==
    IF dbOk
    THEN Advance([r EXCEPT
                     !.pc = "score",
                     !.priceDropScores =
                         calculatePriceDropScores(r.activeIds, priceHistory,
                                                  r.dropNow, nullsFirst)])
    ELSE Fail(r, "priceHistory")

\* the listing the loop of r is at
CurrentListing(r) == r.allListings[r.i + r.k + 1]

\* variant: an update leaves a row alone that has a score already
UpdatedListings_IfUnscored(r) ==
    LET listing == CurrentListing(r)
        scored  == ScoredListing(listing, r, now)
    IN  IF listings[listing.id].dealScore # NullNumber THEN listings
        ELSE [listings EXCEPT ![listing.id].dealScore = scored.dealScore,
                              ![listing.id].scoreBreakdown = scored.scoreBreakdown]

\* the table after update(listings).set({dealScore, scoreBreakdown})
\*   .where(eq(listings.id, listing.id)) of the loop body of r
UpdatedListings(r) ==
    LET listing == CurrentListing(r)
        scored  == ScoredListing(listing, r, now)
    IN  [listings EXCEPT ![listing.id].dealScore = scored.dealScore,
                         ![listing.id].scoreBreakdown = scored.scoreBreakdown]

\* updatedCount++ and the loop conditions
AfterUpdate(r) == Advance([r EXCEPT !.k = r.k + 1, !.updatedCount = r.updatedCount + 1])

\* a request arrives: POST starts and awaits loadWeights()
LoadWeights(dbOk) ==
    /\ run.pc \in {"idle", "done"}
    /\ run' = StartedRun(dbOk)
    /\ hist' = IF run.pc = "done" /\ run.response.success
               THEN Outcome(run, listings) ELSE hist
    /\ UNCHANGED <<listings, priceHistory, settings, now, resp, call, nullsFirst, peer, posts>>

LoadListings(dbOk) ==
    /\ run.pc = "listings"
    /\ run' = WithListings(run, dbOk)
    /\ UNCHANGED <<listings, priceHistory, settings, now, resp, call, nullsFirst, hist, peer, posts>>

BuildPriceVsSegmentScores(dbOk) ==
    /\ run.pc = "segments"
    /\ run' = WithPriceVsSegmentScores(run, dbOk)
    /\ UNCHANGED <<listings, priceHistory, settings, now, resp, call, nullsFirst, hist, peer, posts>>

LoadActiveIds(dbOk) ==
    /\ run.pc = "activeIds"
    /\ run' = WithActiveIds(run, dbOk)
    /\ UNCHANGED <<listings, priceHistory, settings, now, resp, call, nullsFirst, hist, peer, posts>>

BuildPriceDropScores(dbOk) ==
    /\ run.pc = "priceDrop"
    /\ run' = WithPriceDropScores(run, dbOk)
    /\ UNCHANGED <<listings, priceHistory, settings, now, resp, call, nullsFirst, hist, peer, posts>>

\* one pass of the loop body: score a listing and await its update
ScoreListing(writeOk) ==
    /\ run.pc = "score"
    /\ IF writeOk
       THEN /\ listings' = UpdatedListings(run)
            /\ run' = AfterUpdate(run)
       ELSE /\ run' = Fail(run, "update")
            /\ UNCHANGED listings
    /\ UNCHANGED <<priceHistory, settings, now, resp, call, nullsFirst, hist, peer, posts>>

(***************************************************************************)
(* The states a run starts from                                            *)
(***************************************************************************)
NumListings == 2
Ids == 1..NumListings

\* the clock at the start: day 300 of 2024
NowStart == 600

Days(n) == n * TicksPerDay

Prices == {8000, 10000}

Conditions ==
    {[fuelType |-> "diesel", year |-> 2000, mileage |-> 160000,
      priceEvaluation |-> "BELOW", history |-> "drop"],
     [fuelType |-> NULL, year |-> 2021, mileage |-> NullNumber,
      priceEvaluation |-> "ABOVE", history |-> "none"],
     [fuelType |-> "Gasoline", year |-> NullNumber, mileage |-> 60000,
      priceEvaluation |-> NULL, history |-> "rise"],
     [fuelType |-> "gasoline", year |-> 2021, mileage |-> 0,
      priceEvaluation |-> "in", history |-> "undated"],
     [fuelType |-> "gasoline", year |-> 2021, mileage |-> 120000,
      priceEvaluation |-> "ABOVE", history |-> "slight"]}

\* seen yesterday and active, or last seen 45 days ago and inactive
Activities ==
    {[isActive |-> TRUE, lastSeenAt |-> NowStart - Days(1)],
     [isActive |-> FALSE, lastSeenAt |-> NowStart - Days(45)]}

Vehicles == Prices \X Conditions \X Activities

ListingRow(v) ==
    [make |-> "vw", model |-> "golf", fuelType |-> v[2].fuelType, year |-> v[2].year,
     price |-> v[1], mileage |-> v[2].mileage, priceEvaluation |-> v[2].priceEvaluation,
     isActive |-> v[3].isActive, lastSeenAt |-> v[3].lastSeenAt,
     dealScore |-> NullNumber, scoreBreakdown |-> NoBreakdown]

\* the price-history rows the collection process has written for a listing
HistoryRows(id, v) ==
    LET p == v[1]
        row(price, at) == [listingId |-> id, price |-> price, recordedAt |-> at]
    IN  CASE v[2].history = "drop" ->
               {row(p, NowStart - Days(3)), row(p + (p \div 4), NowStart - Days(40))}
          [] v[2].history = "rise" ->
               {row(p, NowStart - Days(3)), row(p - (p \div 5), NowStart - Days(40))}
          [] v[2].history = "slight" ->
               {row(p, NowStart - Days(10)), row(p + (p \div 10), NowStart - Days(40))}
          [] v[2].history = "undated" ->
               {row(p, NullNumber), row(p + (p \div 10), NowStart - Days(10))}
          [] OTHER -> {}

\* weight updates a client may have sent before the run
CandidateWeights ==
    {[priceVsSegment |-> 0, priceEvaluation |-> 100, mileageQuality |-> 0, pricePerKm |-> 0],
     [priceVsSegment |-> 25, priceEvaluation |-> 25, mileageQuality |-> 25, pricePerKm |-> 25],
     [priceVsSegment |-> 26, priceEvaluation |-> 25, mileageQuality |-> 25, pricePerKm |-> 25],
     [priceVsSegment |-> -50, priceEvaluation |-> 150, mileageQuality |-> 0, pricePerKm |-> 0]}

\* those of them the weights endpoint stores
AcceptedWeights ==
    {w \in CandidateWeights : WeightsSchema(w) /\ ~TotalOffByMoreThanTolerance(w)}

NoCall == [fn |-> "none"]

Init ==
    /\ now = NowStart
    /\ \E pick \in [Ids -> Vehicles] :
          /\ listings = [id \in Ids |-> ListingRow(pick[id])]
          /\ priceHistory = UNION {HistoryRows(id, pick[id]) : id \in Ids}
    /\ settings \in {<<>>} \cup {<<[key |-> WEIGHTS_KEY, value |-> w]>> : w \in AcceptedWeights}
    /\ nullsFirst \in BOOLEAN
    /\ run = IdleRun
    /\ peer = IdleRun
    /\ resp = NoResponse
    /\ call = NoCall
    /\ hist = NoOutcome
    /\ posts = NoPosts

\* one invocation at a time whose reads succeed and whose updates may fail
Next ==
    \/ LoadWeights(TRUE)
    \/ LoadListings(TRUE)
    \/ BuildPriceVsSegmentScores(TRUE)
    \/ LoadActiveIds(TRUE)
    \/ BuildPriceDropScores(TRUE)
    \/ \E writeOk \in BOOLEAN : ScoreListing(writeOk)

Spec == Init /\ [][Next]_vars

(***************************************************************************)
(* One invocation among weight requests, failing reads and a moving clock  *)
(***************************************************************************)
\* a car whose mileage score depends on the year it is scored in
OpsConditions ==
    {[fuelType |-> "gasoline", year |-> 2021, mileage |-> 40000,
      priceEvaluation |-> "BELOW", history |-> "drop"]}

\* the cheaper one is active
OpsVehicles ==
    {v \in Prices \X OpsConditions \X Activities : v[1] = 8000 => v[3].isActive}

\* two accepted updates and a rejected one
OpsWeights ==
    {[priceVsSegment |-> 25, priceEvaluation |-> 25, mileageQuality |-> 25, pricePerKm |-> 25],
     [priceVsSegment |-> 0, priceEvaluation |-> 100, mileageQuality |-> 0, pricePerKm |-> 0],
     [priceVsSegment |-> 26, priceEvaluation |-> 25, mileageQuality |-> 25, pricePerKm |-> 25]}

\* later readings of the clock: the same day, the next day, the next year
Instants == {NowStart + 1, NowStart + Days(1), Days(365)}

InitOps ==
    /\ now = NowStart
    /\ \E pick \in [Ids -> OpsVehicles] :
          /\ listings = [id \in Ids |-> ListingRow(pick[id])]
          /\ priceHistory = UNION {HistoryRows(id, pick[id]) : id \in Ids}
    /\ settings = <<>>
    /\ nullsFirst = FALSE
    /\ run = IdleRun
    /\ peer = IdleRun
    /\ resp = NoResponse
    /\ call = NoCall
    /\ hist = NoOutcome
    /\ posts = NoPosts

\* time passes
Tick ==
    /\ \E t \in Instants : t > now /\ now' = t
    /\ UNCHANGED <<listings, priceHistory, settings, run, resp, call, nullsFirst, hist, peer, posts>>

\* the one invocation
FirstRun(dbOk) == run.pc = "idle" /\ LoadWeights(dbOk)

NextOps ==
    \/ \E dbOk \in BOOLEAN : FirstRun(dbOk)
    \/ \E dbOk \in BOOLEAN : LoadListings(dbOk)
    \/ \E dbOk \in BOOLEAN : BuildPriceVsSegmentScores(dbOk)
    \/ \E dbOk \in BOOLEAN : LoadActiveIds(dbOk)
    \/ \E dbOk \in BOOLEAN : BuildPriceDropScores(dbOk)
    \/ \E writeOk \in BOOLEAN : ScoreListing(writeOk)
    \/ \E w \in OpsWeights : PostWeights(w, TRUE)
    \/ GetWeights(TRUE)
    \/ Tick

SpecOps == InitOps /\ [][NextOps]_vars

(***************************************************************************)
(* Two overlapping invocations of POST, and weight updates                 *)
(***************************************************************************)
PeerLoadWeights ==
    /\ peer.pc = "idle"
    /\ peer' = StartedRun(TRUE)
    /\ UNCHANGED <<listings, priceHistory, settings, now, run, resp, call, nullsFirst, hist, posts>>

PeerLoadListings ==
    /\ peer.pc = "listings"
    /\ peer' = WithListings(peer, TRUE)
    /\ UNCHANGED <<listings, priceHistory, settings, now, run, resp, call, nullsFirst, hist, posts>>

PeerBuildPriceVsSegmentScores ==
    /\ peer.pc = "segments"
    /\ peer' = WithPriceVsSegmentScores(peer, TRUE)
    /\ UNCHANGED <<listings, priceHistory, settings, now, run, resp, call, nullsFirst, hist, posts>>

PeerLoadActiveIds ==
    /\ peer.pc = "activeIds"
    /\ peer' = WithActiveIds(peer, TRUE)
    /\ UNCHANGED <<listings, priceHistory, settings, now, run, resp, call, nullsFirst, hist, posts>>

PeerBuildPriceDropScores ==
    /\ peer.pc = "priceDrop"
    /\ peer' = WithPriceDropScores(peer, TRUE)
    /\ UNCHANGED <<listings, priceHistory, settings, now, run, resp, call, nullsFirst, hist, posts>>

PeerScoreListing ==
    /\ peer.pc = "score"
    /\ listings' = UpdatedListings(peer)
    /\ peer' = AfterUpdate(peer)
    /\ UNCHANGED <<priceHistory, settings, now, run, resp, call, nullsFirst, hist, posts>>

\* the updates a client sends between and during the invocations
PeersWeights == {w \in OpsWeights : ~TotalOffByMoreThanTolerance(w)}

NextPeers ==
    \/ FirstRun(TRUE)
    \/ LoadListings(TRUE)
    \/ BuildPriceVsSegmentScores(TRUE)
    \/ LoadActiveIds(TRUE)
    \/ BuildPriceDropScores(TRUE)
    \/ ScoreListing(TRUE)
    \/ PeerLoadWeights
    \/ PeerLoadListings
    \/ PeerBuildPriceVsSegmentScores
    \/ PeerLoadActiveIds
    \/ PeerBuildPriceDropScores
    \/ PeerScoreListing
    \/ \E w \in PeersWeights : PostWeights(w, TRUE)

SpecPeers == InitOps /\ [][NextPeers]_vars

(***************************************************************************)
(* The weights endpoint on its own                                         *)
(***************************************************************************)
NearQuarter == {24, 25, 26}

WeightInputs ==
    [priceVsSegment : NearQuarter, priceEvaluation : NearQuarter,
     mileageQuality : {25}, pricePerKm : NearQuarter]
    \cup CandidateWeights
    \cup {DEFAULT_WEIGHTS,
          [priceVsSegment |-> 100, priceEvaluation |-> 100,
           mileageQuality |-> 100, pricePerKm |-> 100],
          [priceVsSegment |-> 110, priceEvaluation |-> -10,
           mileageQuality |-> 0, pricePerKm |-> 0]}

\* no listing, no run and no request yet
Quiet ==
    /\ now = NowStart
    /\ listings = <<>>
    /\ settings = <<>>
    /\ run = IdleRun
    /\ peer = IdleRun
    /\ resp = NoResponse
    /\ hist = NoOutcome
    /\ posts = NoPosts

InitQuiet ==
    /\ Quiet
    /\ priceHistory = {}
    /\ nullsFirst = FALSE
    /\ call = NoCall

NextWeights ==
    \/ \E w \in WeightInputs, dbOk \in BOOLEAN : PostWeights(w, dbOk)
    \/ \E dbOk \in BOOLEAN : GetWeights(dbOk)

SpecWeights == InitQuiet /\ [][NextWeights]_vars

(***************************************************************************)
(* One run while the collection process goes on: it finds a new price for  *)
(* a listing, or finds an inactive listing on offer again                  *)
(***************************************************************************)
CollectedPrices == {9000}

\* a price change is written to the listing and to its price history
CollectorChangesPrice(id, price) ==
    /\ listings[id].isActive /\ listings[id].price # price
    /\ listings' = [listings EXCEPT ![id].price = price, ![id].lastSeenAt = now]
    /\ priceHistory' = priceHistory \cup
                          {[listingId |-> id, price |-> price, recordedAt |-> now]}
    /\ UNCHANGED <<settings, now, run, resp, call, nullsFirst, hist, peer, posts>>

CollectorActivates(id) ==
    /\ ~listings[id].isActive
    /\ listings' = [listings EXCEPT ![id].isActive = TRUE, ![id].lastSeenAt = now]
    /\ UNCHANGED <<priceHistory, settings, now, run, resp, call, nullsFirst, hist, peer, posts>>

NextCollector ==
    \/ FirstRun(TRUE)
    \/ LoadListings(TRUE)
    \/ BuildPriceVsSegmentScores(TRUE)
    \/ LoadActiveIds(TRUE)
    \/ BuildPriceDropScores(TRUE)
    \/ ScoreListing(TRUE)
    \/ \E id \in DOMAIN listings, price \in CollectedPrices :
          CollectorChangesPrice(id, price)
    \/ \E id \in DOMAIN listings : CollectorActivates(id)

SpecCollector == InitOps /\ [][NextCollector]_vars

(***************************************************************************)
(* Weights updates that overlap                                            *)
(***************************************************************************)
InitConcurrentWeights ==
    /\ Quiet
    /\ priceHistory = {}
    /\ nullsFirst = FALSE
    /\ call = NoCall

NextConcurrentWeights ==
    \/ \E c \in Clients, w \in OpsWeights : PostSelect(c, w)
    \/ \E c \in Clients : PostWrite(c)

SpecConcurrentWeights == InitConcurrentWeights /\ [][NextConcurrentWeights]_vars

(***************************************************************************)
(* calculateWeightedPercentile on its own: one segment, two prices         *)
(***************************************************************************)
MaxSegment == 3

SegmentPriceValues == {8000, 9000, 10000}
SegmentWeightValues == {0, 2, 3, 4}

SegmentEntries == [price : SegmentPriceValues, weight : SegmentWeightValues]

Segments == UNION {[1..n -> SegmentEntries] : n \in 0..MaxSegment}

InitPercentile ==
    /\ Quiet
    /\ priceHistory = {}
    /\ nullsFirst = FALSE
    /\ \E seg \in Segments, p1 \in SegmentPriceValues, p2 \in SegmentPriceValues :
          call = [fn |-> "percentile", segmentPrices |-> seg, price1 |-> p1,
                  price2 |-> p2, done |-> FALSE, score1 |-> 0, score2 |-> 0]

ComputePercentile ==
    /\ call.fn = "percentile" /\ ~call.done
    /\ call' = [call EXCEPT
                  !.done = TRUE,
                  !.score1 = calculateWeightedPercentile(call.price1, call.segmentPrices),
                  !.score2 = calculateWeightedPercentile(call.price2, call.segmentPrices)]
    /\ UNCHANGED <<listings, priceHistory, settings, now, run, resp, nullsFirst, hist, peer, posts>>

SpecPercentile == InitPercentile /\ [][ComputePercentile]_vars

(***************************************************************************)
(* calculateWeightedPercentile on a large segment: entries below, at and   *)
(* above the price, each group some active entries and at most one entry   *)
(* of a listing seen a while ago                                           *)
(***************************************************************************)
LargeGroup == 13

Repeat(e, n) == [k \in 1..n |-> e]

PriceGroup(price, n, old) ==
    Repeat([price |-> price, weight |-> 4], n) \o
    (IF old = 0 THEN <<>> ELSE <<[price |-> price, weight |-> old]>>)

InitLargeSegment ==
    /\ Quiet
    /\ priceHistory = {}
    /\ nullsFirst = FALSE
    /\ \E below \in 0..LargeGroup, equal \in 0..2, above \in 0..LargeGroup,
          oldBelow \in {0, 2, 3}, oldEqual \in {0, 2, 3}, oldAbove \in {0, 2, 3},
          ascending \in BOOLEAN :
          LET b == PriceGroup(8000, below, oldBelow)
              e == PriceGroup(9000, equal, oldEqual)
              a == PriceGroup(10000, above, oldAbove)
          IN  call = [fn |-> "percentile",
                      segmentPrices |-> IF ascending THEN b \o e \o a ELSE a \o e \o b,
                      price1 |-> 9000, price2 |-> 10000, done |-> FALSE,
                      score1 |-> 0, score2 |-> 0]

SpecLargeSegment == InitLargeSegment /\ [][ComputePercentile]_vars

(***************************************************************************)
(* A run over one large segment: active cars of one make, model, fuel type *)
(* and year band, all at one price but the last, which is dearer           *)
(***************************************************************************)
ManyListings == 101

LargeSegmentRow(id) ==
    [make |-> "vw", model |-> "golf", fuelType |-> "diesel", year |-> 2021,
     price |-> IF id = ManyListings THEN 10000 ELSE 8000,
     mileage |-> 60000, priceEvaluation |-> "IN",
     isActive |-> TRUE, lastSeenAt |-> NowStart - Days(1),
     dealScore |-> NullNumber, scoreBreakdown |-> NoBreakdown]

InitLargeRun ==
    /\ now = NowStart
    /\ listings = [id \in 1..ManyListings |-> LargeSegmentRow(id)]
    /\ priceHistory = {}
    /\ settings \in {<<>>} \cup {<<[key |-> WEIGHTS_KEY, value |-> w]>> : w \in AcceptedWeights}
    /\ nullsFirst = FALSE
    /\ run = IdleRun
    /\ peer = IdleRun
    /\ resp = NoResponse
    /\ call = NoCall
    /\ hist = NoOutcome
    /\ posts = NoPosts

\* one invocation, all of whose reads and updates succeed
NextLargeRun ==
    \/ FirstRun(TRUE)
    \/ LoadListings(TRUE)
    \/ BuildPriceVsSegmentScores(TRUE)
    \/ LoadActiveIds(TRUE)
    \/ BuildPriceDropScores(TRUE)
    \/ ScoreListing(TRUE)

SpecLargeRun == InitLargeRun /\ [][NextLargeRun]_vars

(***************************************************************************)
(* A run over more listings than one batch holds: a full batch, or a full  *)
(* batch and one listing more; every listing is a model of its own         *)
(***************************************************************************)
ManyActive == 1001

BatchRow(id, active) ==
    [make |-> "vw", model |-> ToString(id), fuelType |-> "diesel", year |-> 2021,
     price |-> 8000, mileage |-> 60000, priceEvaluation |-> "IN",
     isActive |-> active,
     lastSeenAt |-> IF active THEN NowStart - Days(1) ELSE NowStart - Days(45),
     dealScore |-> NullNumber, scoreBreakdown |-> NoBreakdown]

\* the table: the listings above n are not on sale any more
BatchTable(n) == [id \in 1..(ManyActive + 1) |-> BatchRow(id, id <= n)]

\* the handler in its loop over table, k listings of the first batch written:
\* what the awaits before the loop have left in its locals
RunInFirstBatch(table, k) ==
    LET ids == HistoricalListings(table, NowStart)
    IN  [IdleRun EXCEPT
            !.pc = "score",
            !.weights = StoredWeights(<<>>),
            !.allListings = ActiveListings(table),
            !.segNow = NowStart,
            !.historicalListings =
                [n \in 1..Len(ids) |->
                    [id |-> ids[n], price |-> table[ids[n]].price,
                     isActive |-> table[ids[n]].isActive]],
            !.priceVsSegmentScores = calculatePriceVsSegmentScores(table, NowStart, NowStart),
            !.dropNow = NowStart,
            !.activeIds = ActiveIds(table),
            !.priceDropScores = calculatePriceDropScores(ActiveIds(table), {}, NowStart, FALSE),
            !.k = k,
            !.updatedCount = k]

\* table after the updates of the first k listings of r
WrittenTable(table, r, k) ==
    [id \in DOMAIN table |->
        IF id <= k /\ table[id].isActive
        THEN LET scored == ScoredListing(r.allListings[id], r, NowStart)
             IN  [table[id] EXCEPT !.dealScore = scored.dealScore,
                                   !.scoreBreakdown = scored.scoreBreakdown]
        ELSE table[id]]

\* a run is followed from the arrival of its request, or from the last two
\* listings of its first batch on
WrittenAtStart == {0, batchSize - 2}

InitBatches ==
    /\ now = NowStart
    /\ priceHistory = {}
    /\ settings = <<>>
    /\ nullsFirst = FALSE
    /\ \E n \in {ManyActive - 1, ManyActive}, k \in WrittenAtStart :
          IF k = 0
          THEN /\ listings = BatchTable(n)
               /\ run = IdleRun
          ELSE \E r \in {RunInFirstBatch(BatchTable(n), k)} :
                  /\ listings = WrittenTable(BatchTable(n), r, k)
                  /\ run = r
    /\ peer = IdleRun
    /\ resp = NoResponse
    /\ call = NoCall
    /\ hist = NoOutcome
    /\ posts = NoPosts

SpecBatches == InitBatches /\ [][NextLargeRun]_vars

\* the handler is not suspended for ever, each await returns: weak fairness
\* of NextLargeRun, with ENABLED <<NextLargeRun>>_vars written out (a step is
\* possible from every position of the handler but the returned one)
HandlerProceeds == []<>(run.pc = "done") \/ []<><<NextLargeRun>>_vars

FairSpecBatches == SpecBatches /\ HandlerProceeds

(***************************************************************************)
(* calculateComponentScores on its own: a listing, and another that        *)
(* differs from it in one attribute                                        *)
(***************************************************************************)
Evaluations == {NULL, "", "BELOW", "IN", "ABOVE", "below", "Above", "fair"}
Years == {0, 2014, 2022, 2024}
Mileages == {NullNumber, 0, 9600, 24000, 24001, 40000}
ComponentPrices == {1200, 1201, 6000, 8401}
FuelTypes == {NULL, "diesel", "Diesel", "gasoline", "electric", "lpg", "cng",
              "constructor"}

ScoredAttributes ==
    [priceEvaluation : Evaluations, year : Years, mileage : Mileages,
     price : ComponentPrices, fuelType : FuelTypes]

InitComponents ==
    /\ Quiet
    /\ priceHistory = {}
    /\ nullsFirst = FALSE
    /\ \E listing \in ScoredAttributes :
          \E other \in {[listing EXCEPT !.mileage = m] : m \in Mileages}
                    \cup {[listing EXCEPT !.price = p] : p \in ComponentPrices}
                    \cup {[listing EXCEPT !.year = y] : y \in Years}
                    \cup {[listing EXCEPT !.fuelType = f] : f \in FuelTypes} :
             call = [fn |-> "components", listing |-> listing, other |-> other,
                     done |-> FALSE, scores |-> <<>>, otherScores |-> <<>>,
                     evaluation |-> 0]

ComputeComponents ==
    /\ call.fn = "components" /\ ~call.done
    /\ call' = [call EXCEPT
                  !.done = TRUE,
                  !.scores = calculateComponentScores(call.listing, CurrentYear(now)),
                  !.otherScores = calculateComponentScores(call.other, CurrentYear(now)),
                  !.evaluation = calculatePriceEvaluationScore(call.listing.priceEvaluation)]
    /\ UNCHANGED <<listings, priceHistory, settings, now, run, resp, nullsFirst, hist, peer, posts>>

SpecComponents == InitComponents /\ [][ComputeComponents]_vars

(***************************************************************************)
(* calculatePriceDropScores on its own: the history of one active listing  *)
(***************************************************************************)
MaxRecords == 3

RecordPrices == {80, 90, 95, 99, 100}

\* 3, 7.5, 14, 30.5 and 31 days before the start, and no timestamp
RecordTimes ==
    {NowStart - Days(3), NowStart - Days(7) - 1, NowStart - Days(14),
     NowStart - Days(30) - 1, NowStart - Days(31), NullNumber}

Histories ==
    UNION {[times -> RecordPrices] :
              times \in {T \in SUBSET RecordTimes : Cardinality(T) <= MaxRecords}}

InitPriceDrop ==
    /\ Quiet
    /\ nullsFirst \in BOOLEAN
    /\ \E h \in Histories :
          priceHistory = {[listingId |-> 1, price |-> h[at], recordedAt |-> at] :
                             at \in DOMAIN h}
    /\ call = [fn |-> "priceDrop", done |-> FALSE, scores |-> <<>>]

ComputePriceDrop ==
    /\ call.fn = "priceDrop" /\ ~call.done
    /\ call' = [call EXCEPT
                  !.done = TRUE,
                  !.scores = calculatePriceDropScores({1}, priceHistory, now, nullsFirst)]
    /\ UNCHANGED <<listings, priceHistory, settings, now, run, resp, nullsFirst, hist, peer, posts>>

SpecPriceDrop == InitPriceDrop /\ [][ComputePriceDrop]_vars

(***************************************************************************)
(* calculatePriceVsSegmentScores on its own: the segments of a table       *)
(***************************************************************************)
\* last seen in two days' time, 30.5, 31, 60.5, 61, 90, 90.5 and 91 days ago,
\* and never
SeenTimes ==
    {NowStart + Days(2), NowStart - Days(30) - 1, NowStart - Days(31),
     NowStart - Days(60) - 1, NowStart - Days(61), NowStart - Days(90),
     NowStart - Days(90) - 1, NowStart - Days(91), NullNumber}

\* one car seen at different times, active or not
SeenRows ==
    [make : {"vw"}, model : {"x"}, fuelType : {"diesel"}, year : {2021},
     price : {10000}, mileage : {NullNumber}, priceEvaluation : {NULL},
     isActive : BOOLEAN, lastSeenAt : SeenTimes,
     dealScore : {NullNumber}, scoreBreakdown : {NoBreakdown}]

\* active cars of different makes, models, fuel types, years and prices
KeyRows ==
    [make : {"vw", "vw|golf"}, model : {"x", "golf|x"}, fuelType : {NULL, "diesel"},
     year : {2020, 2021, 2022}, price : Prices, mileage : {NullNumber},
     priceEvaluation : {NULL}, isActive : {TRUE}, lastSeenAt : {NowStart - Days(1)},
     dealScore : {NullNumber}, scoreBreakdown : {NoBreakdown}]

InitSegments ==
    /\ now = NowStart
    /\ listings \in [Ids -> SeenRows \cup KeyRows]
    /\ priceHistory = {}
    /\ settings = <<>>
    /\ nullsFirst = FALSE
    /\ run = IdleRun
    /\ peer = IdleRun
    /\ resp = NoResponse
    /\ hist = NoOutcome
    /\ call = [fn |-> "segments", done |-> FALSE, segmentData |-> <<>>, scores |-> <<>>]
    /\ posts = NoPosts

ComputeSegments ==
    /\ call.fn = "segments" /\ ~call.done
    /\ call' = [call EXCEPT
                  !.done = TRUE,
                  !.segmentData = SegmentData(listings, now, now),
                  !.scores = calculatePriceVsSegmentScores(listings, now, now)]
    /\ UNCHANGED <<listings, priceHistory, settings, now, run, resp, nullsFirst, hist, peer, posts>>

SpecSegments == InitSegments /\ [][ComputeSegments]_vars

(***************************************************************************)
(* Properties                                                              *)
(***************************************************************************)
Min(a, b) == IF a < b THEN a ELSE b

\* the listings of the current run whose update has succeeded so far
Written == 1..run.updatedCount

\* the weighted base of a persisted breakdown
BreakdownBase(b) ==
    FAdd(FAdd(FAdd(FMulInt(b.priceVsSegment.score, ParseHundredths(b.priceVsSegment.weight)),
                   FMulInt(b.priceEvaluation.score,
                           ParseHundredths(b.priceEvaluation.weight))),
              FMulInt(b.mileageQuality.score, ParseHundredths(b.mileageQuality.weight))),
         FMulInt(b.pricePerKm.score, ParseHundredths(b.pricePerKm.weight)))

\* x <= y on doubles
FLessEq(x, y) == ~FLess(y, x)

SumHundredths(w) ==
    w.priceVsSegment + w.priceEvaluation + w.mileageQuality + w.pricePerKm

\* C1: the persisted dealScore of every listing, and each of the four
\* component scores of its persisted breakdown, lies in [0, 100].
ScoresInRange ==
    \A id \in DOMAIN listings :
        listings[id].dealScore # NullNumber =>
            /\ listings[id].dealScore >= 0
            /\ listings[id].dealScore <= 1000
            /\ \A c \in WeightFields :
                  /\ listings[id].scoreBreakdown[c].score >= 0
                  /\ listings[id].scoreBreakdown[c].score <= 100

\* a run with stored weights has written a listing whose base plus bonus
\* exceeds 100 and is persisted as exactly 100
ScoresInRangeWitness ==
    /\ run.pc = "done" /\ run.response.success
    /\ run.weights # DEFAULT_WEIGHTS
    /\ \E n \in Written :
          LET row == listings[run.allListings[n].id]
          IN  /\ row.dealScore = 1000
              /\ FLess(FromInt(100),
                       FAdd(BreakdownBase(row.scoreBreakdown),
                            row.scoreBreakdown.priceDropBonus.bonus))

\* C2: a failed update of a listing is skipped: the run goes on through all
\* listings and answers with success.
WriteFailureIsSkipped ==
    (run.pc = "done" /\ run.error \in {"", "update"}) =>
        /\ run.response.success
        /\ run.response.status = 200
        /\ run.i >= Len(run.allListings)

\* C3: a successful run that follows a successful run, nothing else having
\* changed, leaves the same dealScore and breakdown on every listing and
\* returns the same updatedCount.
RecomputeIdempotent ==
    (run.pc = "done" /\ run.response.success /\ hist # NoOutcome) =>
        Outcome(run, listings) = hist

\* a second successful run has finished, and both runs wrote some listing
RecomputeIdempotentWitness ==
    /\ run.pc = "done" /\ run.response.success
    /\ hist # NoOutcome
    /\ hist.updatedCount >= 1 /\ run.response.updatedCount >= 1

\* C4: a request with four fractions in [0, 1] is rejected (400, nothing
\* stored) exactly when their sum is below 0.99 or above 1.01; otherwise it
\* is accepted and stored.
ToleranceBoundsAccepted ==
    (resp.op = "POST" /\ WeightsSchema(resp.req) /\ ~resp.logged) =>
        IF SumHundredths(resp.req) >= 99 /\ SumHundredths(resp.req) <= 101
        THEN resp.status = 200 /\ StoredWeights(settings) = resp.req
        ELSE resp.status = 400

\* the stored weights are four fractions in [0, 1] with a sum within 0.01 of 1
StoredWeightsValid ==
    /\ Len(settings) <= 1
    /\ \A f \in WeightFields :
          StoredWeights(settings)[f] >= 0 /\ StoredWeights(settings)[f] <= 100
    /\ SumHundredths(StoredWeights(settings)) >= 99
    /\ SumHundredths(StoredWeights(settings)) <= 101

\* one request to the weights endpoint: an accepted update is what a reader
\* finds afterwards, any other leaves the table as it was, and a GET that
\* read the table returns what a reader finds
WeightsRequestStep ==
    CASE resp'.op = "POST" /\ resp'.status = 200 ->
            StoredWeights(settings') = resp'.req
      [] resp'.op = "POST" /\ resp'.status # 200 ->
            settings' = settings
      [] resp'.op = "GET" ->
            /\ settings' = settings
            /\ ~resp'.logged => resp'.weights = StoredWeights(settings)
      [] OTHER -> TRUE

\* C5: a rejected weights update leaves the stored entry unchanged, the
\* stored weights are always valid, and a reader sees the last accepted update
\* (the defaults before the first).
RejectedUpdateLeavesWeights ==
    /\ []StoredWeightsValid
    /\ [][WeightsRequestStep]_vars

\* an update was rejected while accepted weights other than the defaults
\* are stored
RejectedUpdateWitness ==
    /\ resp.op = "POST" /\ resp.status # 200
    /\ Len(settings) = 1
    /\ StoredWeights(settings) # DEFAULT_WEIGHTS

\* C6: in a fixed segment, the lower of two prices never scores lower.
PercentileMonotonic ==
    (call.fn = "percentile" /\ call.done /\ call.price1 < call.price2) =>
        call.score1 >= call.score2

\* two prices of one segment with weight, the lower scoring strictly higher
PercentileMonotonicWitness ==
    /\ call.fn = "percentile" /\ call.done
    /\ call.price1 < call.price2
    /\ Len(call.segmentPrices) = MaxSegment
    /\ call.score1 > call.score2

\* C7: for a segment that is empty or has total weight 0 the score is 50,
\* whatever the price.
NoWeightIsNeutral ==
    (/\ call.fn = "percentile" /\ call.done
     /\ \A n \in 1..Len(call.segmentPrices) : call.segmentPrices[n].weight = 0) =>
        call.score1 = 50 /\ call.score2 = 50

\* a segment with entries, all of weight 0, has been scored
NoWeightIsNeutralWitness ==
    /\ call.fn = "percentile" /\ call.done
    /\ Len(call.segmentPrices) >= 2
    /\ \A n \in 1..Len(call.segmentPrices) : call.segmentPrices[n].weight = 0
    /\ call.price1 # call.price2
    /\ call.score1 = 50

\* total weight, in quarters, of the entries from..to of seg priced from lo
\* to hi
RECURSIVE WeightIn(_, _, _, _, _)
WeightIn(seg, lo, hi, from, to) ==
    IF from > to THEN 0
    ELSE IF from = to
    THEN (IF lo <= seg[from].price /\ seg[from].price <= hi THEN seg[from].weight ELSE 0)
    ELSE WeightIn(seg, lo, hi, from, (from + to) \div 2)
         + WeightIn(seg, lo, hi, (from + to) \div 2 + 1, to)

WeightBetween(seg, lo, hi) == WeightIn(seg, lo, hi, 1, Len(seg))

\* C21: in a segment of total weight T > 0 the score of price p is
\* round(100 - 100 * (B + E/2) / T), B the weight of the entries priced
\* below p and E the weight of those priced exactly p, whatever the order of
\* the entries; a segment with entries at p only scores 50.
PercentileIsMidrank ==
    LET seg == call.segmentPrices
        T == WeightBetween(seg, 0, 1000000)
        B == WeightBetween(seg, 0, call.price1 - 1)
        E == WeightBetween(seg, call.price1, call.price1)
    IN  (call.fn = "percentile" /\ call.done /\ T > 0) =>
            /\ call.score1 = RoundRatio(100 * (2 * T - 2 * B - E), 2 * T)
            /\ (E = T => call.score1 = 50)

\* C22: the market-evaluation score is 100 for BELOW, 50 for IN, 10 for ABOVE
\* and 50 for null and for every string that is not exactly one of the three.
EvaluationScoreByValue ==
    LET claimed(v) == CASE v = "BELOW" -> 100
                        [] v = "IN"    -> 50
                        [] v = "ABOVE" -> 10
                        [] OTHER       -> 50
    IN  (call.fn = "components" /\ call.done) =>
            /\ call.scores.priceEvaluation = claimed(call.listing.priceEvaluation)
            /\ call.evaluation = claimed(call.listing.priceEvaluation)

\* the expected kilometres per year the fuel-type table gives, an unknown or
\* missing fuel type counting as gasoline
TablePerYear(fuel) ==
    LET fuelType == ToLowerCase(IF fuel = NULL \/ fuel = "" THEN "gasoline" ELSE fuel)
    IN  CASE fuelType = "diesel" -> 20000
          [] fuelType = "gasoline" -> 12000
          [] fuelType \in {"electric", "hybrid", "plug-in-hybrid"} -> 15000
          [] fuelType = "lpg" -> 18000
          [] OTHER -> 12000

\* the score of the first row of tiers whose threshold is at least num / den
RECURSIVE FirstTier(_, _, _, _)
FirstTier(tiers, num, den, last) ==
    IF tiers = <<>> THEN last
    ELSE IF num * Head(tiers)[2] <= Head(tiers)[1] * den THEN Head(tiers)[3]
    ELSE FirstTier(Tail(tiers), num, den, last)

\* thresholds as fractions <<numerator, denominator, score>>
MileageTiers ==
    <<<<2, 5, 100>>, <<3, 5, 90>>, <<4, 5, 80>>, <<1, 1, 70>>,
      <<6, 5, 55>>, <<7, 5, 40>>, <<8, 5, 25>>>>

PerKmTiers ==
    <<<<1, 20, 100>>, <<2, 25, 90>>, <<3, 25, 75>>, <<9, 50, 60>>,
      <<1, 4, 45>>, <<7, 20, 30>>>>

\* C23: with year and mileage present the mileage-quality score is the tier
\* of mileage / (max(1, currentYear - year) * expectedPerYear), expectedPerYear
\* from the fuel-type table and 12000 for any other or missing fuel type; for
\* fixed year and fuel type it never increases with the mileage.
MileageQualityByRatio ==
    LET l == call.listing
        o == call.other
        diff == CurrentYear(now) - l.year
        carAge == IF diff > 1 THEN diff ELSE 1
    IN  (call.fn = "components" /\ call.done /\ l.year > 0 /\ l.mileage > 0) =>
            /\ call.scores.mileageQuality =
                   FirstTier(MileageTiers, l.mileage, carAge * TablePerYear(l.fuelType), 10)
            /\ (o.year = l.year /\ o.fuelType = l.fuelType /\ o.mileage >= l.mileage) =>
                   call.otherScores.mileageQuality <= call.scores.mileageQuality

\* C24: with mileage > 0 the price-per-km score is the tier of price / mileage,
\* whatever the year and the fuel type, and for a fixed mileage it never
\* increases with the price.
PricePerKmByRatio ==
    LET l == call.listing
        o == call.other
    IN  (call.fn = "components" /\ call.done /\ l.mileage > 0) =>
            /\ call.scores.pricePerKm = FirstTier(PerKmTiers, l.price, l.mileage, 15)
            /\ (o.price = l.price /\ o.mileage = l.mileage) =>
                   call.otherScores.pricePerKm = call.scores.pricePerKm
            /\ (o.mileage = l.mileage /\ o.price >= l.price) =>
                   call.otherScores.pricePerKm <= call.scores.pricePerKm

\* a price exactly on the first threshold, and a higher price that scores less
PricePerKmWitness ==
    /\ call.fn = "components" /\ call.done
    /\ call.listing.mileage = 24000 /\ call.listing.price = 1200
    /\ call.scores.pricePerKm = 100
    /\ call.other.price > call.listing.price
    /\ call.otherScores.pricePerKm < 100

\* C25: a step of a run changes nothing but the dealScore and scoreBreakdown
\* of listings that the run enumerated as active: the other columns of every
\* listing, the rows of inactive listings, the price history and the stored
\* weights stay as they are.
RunWritesOnlyScores ==
    [][/\ priceHistory' = priceHistory
       /\ settings' = settings
       /\ DOMAIN listings' = DOMAIN listings
       /\ \A id \in DOMAIN listings :
             /\ [listings'[id] EXCEPT !.dealScore = listings[id].dealScore,
                                      !.scoreBreakdown = listings[id].scoreBreakdown]
                   = listings[id]
             /\ ~listings[id].isActive => listings'[id] = listings[id]
             /\ listings'[id] # listings[id] =>
                   \E n \in 1..Len(run.allListings) : run.allListings[n].id = id]_vars

\* a run has ended that scored an active listing beside an inactive one
RunWritesOnlyScoresWitness ==
    /\ run.pc = "done" /\ run.updatedCount >= 1
    /\ \E a \in DOMAIN listings, b \in DOMAIN listings :
          /\ listings[a].isActive /\ listings[a].dealScore # NullNumber
          /\ ~listings[b].isActive /\ listings[b].dealScore = NullNumber
          /\ listings[b].lastSeenAt >= run.segNow - MAX_HISTORY_DAYS * TicksPerDay

\* C8: a written listing without mileage or without year has mileage-quality
\* score 50, one with mileage 0 or without mileage has price-per-km score 50,
\* and a run fails only on a failed update.
MissingDataIsNeutral ==
    /\ \A n \in Written :
          LET l == run.allListings[n]
              b == listings[l.id].scoreBreakdown
          IN  /\ (l.mileage = NullNumber \/ l.year = NullNumber) =>
                     b.mileageQuality.score = 50
              /\ (l.mileage = NullNumber \/ l.mileage = 0) =>
                     b.pricePerKm.score = 50
    /\ (run.pc = "done" /\ ~run.response.success) => run.error = "update"

\* a run has succeeded that wrote a listing with a mileage and no year and a
\* listing without mileage
MissingDataWitness ==
    /\ run.pc = "done" /\ run.response.success
    /\ \E n \in Written :
          /\ run.allListings[n].year = NullNumber
          /\ run.allListings[n].mileage > 0
    /\ \E n \in Written : run.allListings[n].mileage = NullNumber

\* the score the tiers give to a step from price previous to price current,
\* days whole days ago
TierScore(current, previous, days) ==
    IF current >= previous THEN 0
    ELSE IF (previous - current) * 100 >= 20 * previous /\ days <= 7 THEN 100
    ELSE IF (previous - current) * 100 >= 10 * previous /\ days <= 14 THEN 80
    ELSE IF (previous - current) * 100 >= 5 * previous /\ days <= 30 THEN 60
    ELSE IF days <= 30 THEN 40
    ELSE 0

\* the history [100 -> 80], the 80 recorded three days ago
DropOfTwenty ==
    {[listingId |-> 1, price |-> 80, recordedAt |-> NowStart - Days(3)],
     [listingId |-> 1, price |-> 100, recordedAt |-> NowStart - Days(14)]}

BonusIsAdditiveAndCapped ==
    \A n \in Written :
        LET row   == listings[run.allListings[n].id]
            b     == row.scoreBreakdown
            base  == BreakdownBase(b)
            bonus == b.priceDropBonus.bonus
            total == FMin(FromInt(100), FAdd(base, bonus))
        IN  /\ FMulInt(10, bonus) = FromInt(b.priceDropBonus.score)
            /\ FLessEq(FZero, bonus) /\ FLessEq(bonus, FromInt(10))
            /\ row.dealScore = MathRound(FMulInt(10, total))
            /\ b.priceDropBonus.score = 0 => total = FMin(FromInt(100), base)
            /\ FLessEq(total, FAdd(base, FromInt(10)))

\* a written listing gained the full 10 points, another one none
BonusWitness ==
    /\ \E n \in Written :
          LET row == listings[run.allListings[n].id]
          IN  /\ row.scoreBreakdown.priceDropBonus.bonus = FromInt(10)
              /\ FLess(FAdd(BreakdownBase(row.scoreBreakdown), FromInt(10)), FromInt(100))
    /\ \E n \in Written :
          listings[run.allListings[n].id].scoreBreakdown.priceDropBonus.bonus = FZero

\* the blend of four component scores with the weights w and a bonus
BlendOf(scores, w, bonus) ==
    FMin(FromInt(100), FAdd(BaseScore(scores.priceVsSegment, scores, w), bonus))

ReadFailed ==
    \/ \E n \in 1..Len(run.log) : run.log[n] = "Error loading weights:"
    \/ run.error \in {"listings", "segments", "activeIds", "priceHistory"}

\* C12: a run with a failed bulk read (weights, listings or price history)
\* scores no listing after it and returns the failure response.
BulkReadFailureIsFatal ==
    ReadFailed =>
        /\ run.updatedCount = 0
        /\ run.pc = "done" => (~run.response.success /\ run.response.status = 500)

\* the weights of the last accepted update, the defaults before the first
LastAccepted(table) ==
    IF Len(table) = 0
    THEN [priceVsSegment |-> 35, priceEvaluation |-> 25,
          mileageQuality |-> 25, pricePerKm |-> 15]
    ELSE table[Len(table)].value

\* a step of the weights endpoint or of the run, for readers of the weights
WeightsReadBackStep ==
    /\ (resp' # resp /\ resp'.op = "GET" /\ ~resp'.logged) =>
           resp'.weights = LastAccepted(settings)
    /\ (run.pc = "idle" /\ run'.pc = "listings" /\ run'.log = <<>>) =>
           run'.weights = LastAccepted(settings)
    /\ (run'.pc = "done" /\ run'.response.success) =>
           run'.response.weights = run'.weights
    /\ settings' # settings =>
           (resp'.op = "POST" /\ resp'.status = 200 /\ Len(settings') = 1)
    /\ (resp' # resp /\ resp'.op = "POST" /\ resp'.status = 200) =>
           LastAccepted(settings') = resp'.req

WrittenWithRunWeights ==
    /\ \A n \in Written :
          \A c \in WeightFields :
              listings[run.allListings[n].id].scoreBreakdown[c].weight = run.weights[c]
    /\ (run.pc = "done" /\ run.response.success) => run.response.weights = run.weights

\* C14: the weights of a run are those loaded at its start, for every listing
\* it writes and in its response, whatever update is accepted meanwhile.
WeightsReadOncePerRun ==
    /\ []WrittenWithRunWeights
    /\ [][run.pc \notin {"idle", "done"} => run'.weights = run.weights]_vars

\* the run is between two writes while other weights than its own are stored
WeightsReadOnceWitness ==
    /\ run.pc = "score" /\ run.updatedCount >= 1
    /\ run.log = <<>>
    /\ LastAccepted(settings) # run.weights

\* C16: every clock reading of a run is the same instant: the now of the
\* price-drop scores is the now of the segment cutoff, and every written
\* listing has the age of the year of that instant.
SingleTemporalBaseline ==
    /\ run.dropNow # NullNumber => run.dropNow = run.segNow
    /\ \A n \in Written :
          LET l == run.allListings[n]
          IN  listings[l.id].scoreBreakdown.mileageQuality.score =
                  MileageQualityScore(l, CurrentYear(run.segNow))

\* once the loop runs, both score maps cover the listings to score
MapsBuilt ==
    (run.pc = "score" \/ run.updatedCount > 0) =>
        \A n \in 1..Len(run.allListings) :
            /\ run.allListings[n].id \in DOMAIN run.priceVsSegmentScores
            /\ run.allListings[n].id \in DOMAIN run.priceDropScores

\* the loop leaves the maps alone, and only the loop writes listings
MapsFrozen ==
    /\ run.pc = "score" =>
           /\ run'.priceVsSegmentScores = run.priceVsSegmentScores
           /\ run'.priceDropScores = run.priceDropScores
    /\ listings' # listings => run.pc = "score"

\* C17: the price-vs-segment and price-drop score maps of a run are complete
\* before its first write and do not change while it scores.
StatisticsBuiltBeforeScoring == []MapsBuilt /\ [][MapsFrozen]_vars

\* a run has written two listings from maps with a segment score other
\* than 50 and a price-drop score above 0
StatisticsBuiltWitness ==
    /\ run.pc = "done" /\ run.response.success /\ run.updatedCount >= 2
    /\ \E id \in DOMAIN run.priceVsSegmentScores : run.priceVsSegmentScores[id] # 50
    /\ \E id \in DOMAIN run.priceDropScores : run.priceDropScores[id] > 0

\* a write of the invocation r puts its own score on the listing it is at,
\* whatever is there, and touches no other listing
WritesOwnScore(r, rNext) ==
    rNext.updatedCount = r.updatedCount + 1 =>
        LET l == CurrentListing(r)
            scored == ScoredListing(l, r, now)
        IN  /\ listings'[l.id].dealScore = scored.dealScore
            /\ listings'[l.id].scoreBreakdown = scored.scoreBreakdown
            /\ \A c \in WeightFields : listings'[l.id].scoreBreakdown[c].weight = r.weights[c]
            /\ \A id \in DOMAIN listings \ {l.id} : listings'[id] = listings[id]

\* every persisted score carries the weights of one of the two invocations
FromOneOfTheRuns ==
    \A id \in DOMAIN listings :
        listings[id].dealScore # NullNumber =>
            \E r \in {run, peer} :
                \A c \in WeightFields : listings[id].scoreBreakdown[c].weight = r.weights[c]

\* C15: nothing orders two invocations: each write of either puts the
\* writer's score on the listing whatever the other has written (the last
\* write wins), so the persisted scores come from either run, listing by
\* listing.
LastWriteWins ==
    /\ []FromOneOfTheRuns
    /\ [][WritesOwnScore(run, run') /\ WritesOwnScore(peer, peer')]_vars

\* both invocations have finished, with different weights, and one listing
\* carries the score of the one, another listing the score of the other
LastWriteWinsWitness ==
    /\ run.pc = "done" /\ peer.pc = "done"
    /\ run.response.success /\ peer.response.success
    /\ run.updatedCount >= 2 /\ peer.updatedCount >= 2
    /\ run.weights # peer.weights
    /\ \E a \in DOMAIN listings, b \in DOMAIN listings :
          /\ listings[a].dealScore # NullNumber /\ listings[b].dealScore # NullNumber
          /\ \A c \in WeightFields :
                /\ listings[a].scoreBreakdown[c].weight = run.weights[c]
                /\ listings[b].scoreBreakdown[c].weight = peer.weights[c]

\* the entries of the listing id in the segments that were built
EntriesOf(id) ==
    {e \in UNION {{call.segmentData[key][n] : n \in DOMAIN call.segmentData[key]} :
                     key \in DOMAIN call.segmentData} : e.id = id}

\* the segments (keys) the listing id has an entry in
SegmentsOf(id) ==
    {key \in DOMAIN call.segmentData :
        \E n \in DOMAIN call.segmentData[key] : call.segmentData[key][n].id = id}

\* the weight of a listing by the table of whole days since it was seen,
\* in quarters
WeightByDays(l) ==
    IF l.isActive THEN 4
    ELSE IF l.lastSeenAt = NullNumber THEN 0
    ELSE LET d == (now - l.lastSeenAt) \div TicksPerDay
         IN  IF d < 0 THEN 4
             ELSE IF d <= 30 THEN 4
             ELSE IF d <= 60 THEN 3
             ELSE IF d <= 90 THEN 2
             ELSE 0

\* C18: a listing contributes to its segment one entry with the weight of
\* the table (1.0 active; else 1.0, 0.75, 0.5 by whole days up to 30, 60,
\* 90), and no entry when that weight is 0; entries weigh 0.5, 0.75 or 1.0.
ContributedWeightByDays ==
    (call.fn = "segments" /\ call.done) =>
        \A id \in DOMAIN listings :
            /\ \A e \in EntriesOf(id) : e.weight \in {2, 3, 4}
            /\ IF WeightByDays(listings[id]) = 0
               THEN EntriesOf(id) = {}
               ELSE /\ Cardinality(EntriesOf(id)) = 1
                    /\ \A e \in EntriesOf(id) : e.weight = WeightByDays(listings[id])

\* C19: two listings with entries share a segment exactly when they agree
\* in make, model, fuelType and yearBand.
SameSegmentIffSameAttributes ==
    (call.fn = "segments" /\ call.done) =>
        \A a \in DOMAIN listings, b \in DOMAIN listings :
            (EntriesOf(a) # {} /\ EntriesOf(b) # {}) =>
                ((SegmentsOf(a) = SegmentsOf(b)) <=>
                    /\ listings[a].make = listings[b].make
                    /\ listings[a].model = listings[b].model
                    /\ listings[a].fuelType = listings[b].fuelType
                    /\ YearGroup(listings[a].year) = YearGroup(listings[b].year))

\* C20: an active listing without fuelType is alone in its segment and has
\* the price-vs-segment score 50.
MissingAttributeIsSingleton ==
    (call.fn = "segments" /\ call.done) =>
        \A id \in DOMAIN listings :
            (listings[id].isActive /\ listings[id].fuelType = NULL) =>
                /\ \A key \in SegmentsOf(id) :
                      \A n \in DOMAIN call.segmentData[key] :
                          call.segmentData[key][n].id = id
                /\ call.scores[id] = 50

\* C27: every listing the segment builder scores has exactly one entry in its
\* own segment, of weight 1.0, so that segment is not empty and weighs at
\* least 1.0: the result for an empty segment is never the builder's.
ScoredListingIsOwnEntry ==
    (call.fn = "segments" /\ call.done) =>
        \A id \in DOMAIN call.scores :
            LET key == SegmentKey(listings[id])
            IN  /\ listings[id].isActive
                /\ key \in DOMAIN call.segmentData
                /\ Cardinality({n \in DOMAIN call.segmentData[key] :
                                   /\ call.segmentData[key][n].id = id
                                   /\ call.segmentData[key][n].weight = 4}) = 1
                /\ WeightBetween(call.segmentData[key], 0, 1000000) >= 4

\* an active listing seen more than 90 days ago, or never, has been scored
\* beside a listing that is no longer in any segment
ScoredListingIsOwnEntryWitness ==
    /\ call.fn = "segments" /\ call.done
    /\ \E id \in DOMAIN call.scores :
          \/ listings[id].lastSeenAt = NullNumber
          \/ listings[id].lastSeenAt < now - MAX_HISTORY_DAYS * TicksPerDay
    /\ \E id \in DOMAIN listings : EntriesOf(id) = {}

\* C26: the price-vs-segment score in the breakdown of a written listing is
\* the weighted-percentile score the segment builder computed for it, for
\* every value from 0 to 100: a score of 0 is blended as 0, not as 50.
BlendsPercentileScore ==
    \A n \in Written :
        LET id == run.allListings[n].id
        IN  id \in DOMAIN run.priceVsSegmentScores =>
               /\ listings[id].scoreBreakdown.priceVsSegment.score =
                      run.priceVsSegmentScores[id]
               /\ listings[id].dealScore =
                      RoundToTenth(TotalScore(
                          BaseScore(run.priceVsSegmentScores[id],
                                    calculateComponentScores(run.allListings[n],
                                                             CurrentYear(now)),
                                    run.weights),
                          PriceDropBonus(GetOr(run.priceDropScores, id, 0))))

\* C28: the scores written for a listing come from one view of it: the
\* segment builder read it active and at the price the driver enumerated it
\* with, and the price-drop calculator read it active, also when the
\* collection process changes a price or activates a listing between the
\* reads; so no written listing was missing from one of the reads.
ConsistentListingView ==
    \A n \in Written :
        LET listing == run.allListings[n]
        IN  /\ \E m \in DOMAIN run.historicalListings :
                  /\ run.historicalListings[m].id = listing.id
                  /\ run.historicalListings[m].isActive
                  /\ run.historicalListings[m].price = listing.price
            /\ listing.id \in run.activeIds

\* C29: however weights updates interleave, once an update with valid weights
\* has ended the settings table has exactly one algorithm_weights row, its
\* value is the weights of one of the accepted updates, and every update with
\* valid weights has a success response.
WeightsSingleton ==
    LET valid(c) == /\ posts[c].pc = "done"
                    /\ WeightsSchema(posts[c].weights)
                    /\ ~TotalOffByMoreThanTolerance(posts[c].weights)
        rows == SelectSeq(settings, LAMBDA r : r.key = WEIGHTS_KEY)
    IN  (\E c \in Clients : valid(c)) =>
            /\ Len(rows) = 1
            /\ rows[1].value \in PeersWeights
            /\ \A c \in Clients : valid(c) => posts[c].status = 200

\* C30: a run ends; each of its updates writes the next listing of the
\* enumeration, none skipped and none written twice, also from one batch of
\* 1000 to the next; and when the updates succeed the response counts the
\* listings that were active at the enumeration.
BatchesCoverEveryListing ==
    /\ <>(run.pc = "done")
    /\ [][listings' # listings =>
             LET n == run.updatedCount + 1
             IN  /\ n <= Len(run.allListings)
                 /\ run'.updatedCount = n
                 /\ \A id \in DOMAIN listings :
                       listings'[id] # listings[id] <=> id = run.allListings[n].id]_vars
    /\ [](run.pc = "done" =>
             /\ run.response.success
             /\ run.response.updatedCount = Len(run.allListings)
             /\ run.response.updatedCount =
                    Cardinality({id \in DOMAIN listings : listings[id].isActive})
             /\ \A id \in DOMAIN listings :
                    listings[id].isActive <=> listings[id].dealScore # NullNumber)

\* a run over one listing more than a batch has ended, past the first batch
BatchesWitness ==
    /\ run.pc = "done"
    /\ run.i >= batchSize
    /\ run.response.updatedCount > batchSize
    /\ run.response.updatedCount % batchSize # 0
    /\ \E id \in DOMAIN listings : ~listings[id].isActive

====
